---- MODULE Spec2Model ----
(***************************************************************************)
(* Pairwise Test Case Generator (src/main.py).                             *)
(*                                                                         *)
(* The Streamlit script keeps one piece of session state, the ordered      *)
(* mapping  parameters : name -> list of values,  edited by the buttons    *)
(* "Add Parameter", "Update" and "Delete", and read by "Generate Test      *)
(* Cases", which validates it, calls algo.find_minimum_test_suite and      *)
(* algo.count_unique_pairs and renders a table.  Every button press is one *)
(* run of the script; at most one button is pressed per run.               *)
(*                                                                         *)
(* A Python str is modelled as the sequence of its code points, so that    *)
(* strip, split and join are computed character by character.  A dict is   *)
(* modelled as the sequence of its items in insertion order.               *)
(*                                                                         *)
(* The module algo is not part of the sources; PairEnumerator,             *)
(* GreedySuiteBuilder and CoverageAnalyzer are modelled from spec.md       *)
(* sections 3, 4, 6 and 7.                                                 *)
(***************************************************************************)
EXTENDS Integers, Sequences, FiniteSets, TLC

VARIABLES
    parameters,   \* st.session_state.parameters: <<[name, values], ...>>
    pc,           \* "idle" between script runs, "building" inside the core
    calls,        \* the algo functions this run has called, in call order
    status,       \* how the core's last call ended
    all_pairs,    \* the required pair universe of the running generation
    uncovered,    \* the builder's required pairs not yet covered
    suite,        \* the builder's test suite, in generation order
    analysis,     \* the analyzer's last result
    message,      \* what the run reported with st.error / st.success
    output        \* the metrics and the table the run rendered

vars == <<parameters, pc, calls, status, all_pairs, uncovered, suite,
          analysis, message, output>>

(***************************************************************************)
(* Bounds of the model.                                                    *)
(***************************************************************************)
MaxParams == 3      \* parameters of a drawn parameter set
MaxDomain == 3      \* values per parameter of a drawn parameter set
MaxSuite  == 3      \* test cases of a suite drawn for the analyzer

(***************************************************************************)
(* Python str values.                                                      *)
(***************************************************************************)
\* the printable ASCII characters U+0020 to U+005F and U+0061 to U+007E, in
\* code point order (U+0060 cannot be written in a string of this language)
ASCIIFrom32 ==
    <<" ", "!", "\"", "#", "$", "%", "&", "'", "(", ")", "*", "+", ",", "-",
      ".", "/", "0", "1", "2", "3", "4", "5", "6", "7", "8", "9", ":", ";",
      "<", "=", ">", "?", "@", "A", "B", "C", "D", "E", "F", "G", "H", "I",
      "J", "K", "L", "M", "N", "O", "P", "Q", "R", "S", "T", "U", "V", "W",
      "X", "Y", "Z", "[", "\\", "]", "^", "_">>

ASCIIFrom97 ==
    <<"a", "b", "c", "d", "e", "f", "g", "h", "i", "j", "k", "l", "m", "n",
      "o", "p", "q", "r", "s", "t", "u", "v", "w", "x", "y", "z", "{", "|",
      "}", "~">>

\* ord(c) of one of these characters
Ord(c) ==
    IF \E i \in 1..Len(ASCIIFrom97) : ASCIIFrom97[i] = c
    THEN 96 + (CHOOSE i \in 1..Len(ASCIIFrom97) : ASCIIFrom97[i] = c)
    ELSE 31 + (CHOOSE i \in 1..Len(ASCIIFrom32) : ASCIIFrom32[i] = c)

\* the str whose characters are chars
Str(chars) == [i \in 1..Len(chars) |-> Ord(chars[i])]

(***************************************************************************)
(* Python str operations.                                                  *)
(***************************************************************************)
\* the code points str.strip() removes: those c with chr(c).isspace(), i.e.
\* \t \n \x0b \x0c \r, \x1c to \x1f, space, U+0085, U+00A0, U+1680,
\* U+2000 to U+200A, U+2028, U+2029, U+202F, U+205F and U+3000
Whitespace ==
    (9..13) \cup (28..32) \cup {133, 160, 5760} \cup (8192..8202)
        \cup {8232, 8233, 8239, 8287, 12288}

Comma == Ord(",")

RECURSIVE LStrip(_)
LStrip(s) ==
    IF s # <<>> /\ Head(s) \in Whitespace THEN LStrip(Tail(s)) ELSE s

RECURSIVE RStrip(_)
RStrip(s) ==
    IF s # <<>> /\ s[Len(s)] \in Whitespace
    THEN RStrip(SubSeq(s, 1, Len(s) - 1))
    ELSE s

\* str.strip()
Strip(s) == RStrip(LStrip(s))

\* str.split(','): the pieces between commas, empty pieces included
RECURSIVE SplitComma(_)
SplitComma(s) ==
    IF \E k \in 1..Len(s) : s[k] = Comma
    THEN LET k == CHOOSE i \in 1..Len(s) :
                      /\ s[i] = Comma
                      /\ \A j \in 1..(i - 1) : s[j] # Comma
         IN  <<SubSeq(s, 1, k - 1)>> \o SplitComma(SubSeq(s, k + 1, Len(s)))
    ELSE <<s>>

\* ", ".join(items)
RECURSIVE JoinCommaSpace(_)
JoinCommaSpace(items) ==
    IF items = <<>> THEN <<>>
    ELSE IF Len(items) = 1 THEN items[1]
    ELSE items[1] \o Str(<<",", " ">>) \o JoinCommaSpace(Tail(items))

\* the elements of a list, as set(list) builds them
ToSet(list) == {list[i] : i \in 1..Len(list)}

(***************************************************************************)
(* Python dict operations on the item sequence.                            *)
(***************************************************************************)
Keys(d) == {d[i].name : i \in 1..Len(d)}

KeyList(d) == [i \in 1..Len(d) |-> d[i].name]

\* d[key] = values: in place for a present key, appended for a new one
DictSet(d, key, values) ==
    IF key \in Keys(d)
    THEN [i \in 1..Len(d) |->
            IF d[i].name = key THEN [name |-> key, values |-> values] ELSE d[i]]
    ELSE Append(d, [name |-> key, values |-> values])

\* del d[key]
DictDel(d, key) == SelectSeq(d, LAMBDA item : item.name # key)

(***************************************************************************)
(* initialize_session_state                                                *)
(***************************************************************************)
DefaultParameters ==
<<
    [name   |-> Str(<<"D","i","s","p","l","a","y"," ","M","o","d","e">>),
     values |-> <<Str(<<"F","u","l","l"," ","G","r","a","p","h">>),
                 Str(<<"T","e","x","t"," ","O","n","l","y">>),
                 Str(<<"L","i","m","i","t","e","d","-","B","a","n","d","w","i","d","t","h">>)>>],
    [name   |-> Str(<<"L","a","n","g","u","a","g","e">>),
     values |-> <<Str(<<"E","n","g","l","i","s","h">>),
                 Str(<<"F","r","e","n","c","h">>),
                 Str(<<"S","p","a","n","i","s","h">>),
                 Str(<<"T","u","r","k","i","s","h">>)>>],
    [name   |-> Str(<<"F","o","n","t","s">>),
     values |-> <<Str(<<"M","i","n","i","m","a","l">>),
                 Str(<<"S","t","a","n","d","a","r","d">>),
                 Str(<<"D","o","c","u","m","e","n","t","-","l","o","a","d","e","d">>)>>],
    [name   |-> Str(<<"C","o","l","o","r">>),
     values |-> <<Str(<<"M","o","n","o","c","h","r","o","m","e">>),
                 Str(<<"C","o","l","o","r","m","a","p">>),
                 Str(<<"1","6","-","b","i","t">>),
                 Str(<<"T","r","u","e"," ","C","o","l","o","r">>)>>],
    [name   |-> Str(<<"S","c","r","e","e","n"," ","S","i","z","e">>),
     values |-> <<Str(<<"H","a","n","d","-","h","e","l","d">>),
                 Str(<<"l","a","p","t","o","p">>),
                 Str(<<"f","u","l","l","s","i","z","e">>)>>]
>>

(***************************************************************************)
(* validate_parameter_name, validate_parameter_values                      *)
(***************************************************************************)
validate_parameter_name(name) ==
    IF name = <<>> \/ Strip(name) = <<>>
    THEN [ok |-> FALSE, error |-> "Parameter name cannot be empty"]
    ELSE IF Strip(name) \in Keys(parameters)
    THEN [ok |-> FALSE, error |-> "Parameter name already exists"]
    ELSE [ok |-> TRUE, error |-> ""]

\* Variant of CleanValues that keeps the pieces as split, without strip().
CleanValuesNoStrip(values) ==
    SelectSeq(SplitComma(values), LAMBDA v : Strip(v) # <<>>)

\* [v.strip() for v in values.split(',') if v.strip()]
CleanValues(values) ==
    LET pieces   == SplitComma(values)
        stripped == [i \in 1..Len(pieces) |-> Strip(pieces[i])]
    IN  SelectSeq(stripped, LAMBDA v : v # <<>>)

\* Variant of validate_parameter_values without the duplicate check.
ValidateValuesNoDuplicateCheck(values) ==
    IF values = <<>> \/ Strip(values) = <<>>
    THEN [ok |-> FALSE, values |-> <<>>, error |-> "Values cannot be empty"]
    ELSE LET values_list == CleanValues(values)
         IN  IF values_list = <<>>
             THEN [ok |-> FALSE, values |-> <<>>,
                   error |-> "No valid values provided"]
             ELSE IF Len(values_list) < 2
             THEN [ok |-> FALSE, values |-> <<>>,
                   error |-> "At least 2 values are required for each parameter"]
             ELSE [ok |-> TRUE, values |-> values_list, error |-> ""]

validate_parameter_values(values) ==
    IF values = <<>> \/ Strip(values) = <<>>
    THEN [ok |-> FALSE, values |-> <<>>, error |-> "Values cannot be empty"]
    ELSE LET values_list == CleanValues(values)
         IN  IF values_list = <<>>
             THEN [ok |-> FALSE, values |-> <<>>,
                   error |-> "No valid values provided"]
             ELSE IF Len(values_list) # Cardinality(ToSet(values_list))
             THEN [ok |-> FALSE, values |-> <<>>,
                   error |-> "Duplicate values are not allowed"]
             ELSE IF Len(values_list) < 2
             THEN [ok |-> FALSE, values |-> <<>>,
                   error |-> "At least 2 values are required for each parameter"]
             ELSE [ok |-> TRUE, values |-> values_list, error |-> ""]

(***************************************************************************)
(* algo, modelled from spec.md.                                            *)
(*                                                                         *)
(* An assignment is <<parameter name, value>>; a pair is the set of two    *)
(* assignments of different parameters; a test case is the sequence of     *)
(* the values chosen, one per parameter, in declaration order.             *)
(***************************************************************************)
\* Variant of Assignment that identifies an assignment by its value alone.
AssignmentByValueOnly(params, i, value) == <<value>>

Assignment(params, i, value) == <<params[i].name, value>>

Pair(a, b) == {a, b}

\* PairEnumerator (spec.md 3 and 4.1): every pair of assignments of two
\* distinct parameters
EnumeratePairs(params) ==
    UNION { UNION { { Pair(Assignment(params, i, params[i].values[v]),
                           Assignment(params, j, params[j].values[w])) :
                        v \in 1..Len(params[i].values),
                        w \in 1..Len(params[j].values) } :
                    j \in (i + 1)..Len(params) } :
            i \in 1..Len(params) }

\* the pairs one test case covers (spec.md 3, TestCase)
TestPairs(params, test) ==
    { Pair(Assignment(params, ij[1], test[ij[1]]),
           Assignment(params, ij[2], test[ij[2]])) :
        ij \in { q \in (1..Len(test)) \X (1..Len(test)) : q[1] < q[2] } }

\* the preconditions the core re-validates (spec.md 4.1, 6 and 7)
PreconditionViolated(params) ==
    \/ Len(params) < 2
    \/ \E i \in 1..Len(params) : Cardinality(ToSet(params[i].values)) < 2
    \/ \E i \in 1..Len(params) : params[i].name = <<>>
    \/ \E i \in 1..Len(params) : \E v \in 1..Len(params[i].values) :
           params[i].values[v] = <<>>
    \/ \E i \in 1..Len(params) :
           Len(params[i].values) # Cardinality(ToSet(params[i].values))
    \/ Cardinality(Keys(params)) # Len(params)

\* GreedySuiteBuilder step 1 (spec.md 4.2): the uncovered pairs that value
\* number v of the next parameter would newly cover together with the
\* values already chosen in this candidate
Gain(params, open, chosen, v) ==
    LET i == Len(chosen) + 1
    IN  Cardinality({ j \in 1..Len(chosen) :
            Pair(Assignment(params, j, chosen[j]),
                 Assignment(params, i, params[i].values[v])) \in open })

\* the value of maximal gain; among equals the first declared
BestValue(params, open, chosen) ==
    LET i    == Len(chosen) + 1
        dom  == 1..Len(params[i].values)
        best == CHOOSE v \in dom :
                    /\ \A w \in dom :
                           Gain(params, open, chosen, w)
                               <= Gain(params, open, chosen, v)
                    /\ \A w \in 1..(v - 1) :
                           Gain(params, open, chosen, w)
                               < Gain(params, open, chosen, v)
    IN  params[i].values[best]

\* one candidate test case, built parameter by parameter in declaration order
RECURSIVE BuildCandidate(_, _, _)
BuildCandidate(params, open, chosen) ==
    IF Len(chosen) = Len(params) THEN chosen
    ELSE BuildCandidate(params, open,
                        Append(chosen, BestValue(params, open, chosen)))

\* Variant of AnalyzeFrom that counts every pair of a test case as new.
RECURSIVE AnalyzeFromCountingAll(_, _, _, _)
AnalyzeFromCountingAll(params, tests, k, acc) ==
    IF k > Len(tests) THEN acc
    ELSE LET pairs == TestPairs(params, tests[k])
         IN  AnalyzeFromCountingAll(params, tests, k + 1,
                 [covered_pairs     |-> acc.covered_pairs \cup pairs,
                  test_case_pairs   |-> Append(acc.test_case_pairs, pairs),
                  new_unique_counts |->
                      Append(acc.new_unique_counts, Cardinality(pairs))])

\* CoverageAnalyzer (spec.md 4.3), algo.count_unique_pairs: the test cases
\* are processed in suite order against the pairs seen so far
RECURSIVE AnalyzeFrom(_, _, _, _)
AnalyzeFrom(params, tests, k, acc) ==
    IF k > Len(tests) THEN acc
    ELSE LET pairs == TestPairs(params, tests[k])
         IN  AnalyzeFrom(params, tests, k + 1,
                 [covered_pairs     |-> acc.covered_pairs \cup pairs,
                  test_case_pairs   |-> Append(acc.test_case_pairs, pairs),
                  new_unique_counts |->
                      Append(acc.new_unique_counts,
                             Cardinality(pairs \ acc.covered_pairs))])

count_unique_pairs(optimal_tests, pairs, params) ==
    AnalyzeFrom(params, optimal_tests, 1,
                [covered_pairs |-> {}, test_case_pairs |-> <<>>,
                 new_unique_counts |-> <<>>])


(***************************************************************************)
(* What a run shows.                                                       *)
(***************************************************************************)
\* A message is the literal text of the call's (f-)string and, as arg, the
\* str formatted into its placeholder; arg is empty for a plain string.
NoMessage == [level |-> "none", text |-> "", arg |-> <<>>]

\* st.error
Error(text, arg) == [level |-> "error", text |-> text, arg |-> arg]

\* st.success
Success(text, arg) == [level |-> "success", text |-> text, arg |-> arg]

\* an exception raised by the core and not caught by main
Exception(text) == [level |-> "exception", text |-> text, arg |-> <<>>]

NoAnalysis ==
    [covered_pairs |-> {}, test_case_pairs |-> <<>>, new_unique_counts |-> <<>>]

NoOutput ==
    [shown |-> FALSE, total_pairs |-> 0, total_tests |-> 0,
     headers |-> <<>>, rows |-> <<>>]

\* the metrics and the table of a generated suite: one column per
\* parameter between "Test Case #" and "New Unique Pairs"
Render(params, optimal_tests, pairs, new_unique_counts) ==
    [shown       |-> TRUE,
     total_pairs |-> Cardinality(pairs),
     total_tests |-> Len(optimal_tests),
     headers     |-> KeyList(params),
     rows        |-> [i \in 1..Len(optimal_tests) |->
                        [test_case  |-> i,
                         values     |-> optimal_tests[i],
                         new_unique |-> new_unique_counts[i]]]]

\* a script run starts with nothing left of the previous run
FreshRun ==
    /\ pc' = "idle"
    /\ calls' = <<>>
    /\ status' = "none"
    /\ all_pairs' = {}
    /\ uncovered' = {}
    /\ suite' = <<>>
    /\ analysis' = NoAnalysis
    /\ output' = NoOutput

(***************************************************************************)
(* The texts typed into the two "New Parameter" fields and into a          *)
(* parameter's "Values" field.  Besides the space they hold a tab, a form   *)
(* feed (U+000C), a no-break space (U+00A0), an em space (U+2003) and an   *)
(* ideographic space (U+3000), as pasted text does.                        *)
(***************************************************************************)
NameInputs ==
    { <<>>,                                          \* ""
      <<9, 160>>,                                    \* "\t\xa0"
      Str(<<"O", "S">>),                             \* "OS"
      Str(<<" ", "O", "S">>) \o <<12288>>,           \* " OS\u3000"
      <<12>> \o Str(<<"F", "o", "n", "t", "s">>) }   \* "\x0cFonts"

ValueInputs ==
    { <<>>,                                          \* ""
      <<160>>,                                       \* "\xa0"
      Str(<<",", " ">>),                             \* ", "
      Str(<<"x">>) \o <<Comma, 160>>,                \* "x,\xa0"
      Str(<<"x", ",", " ", "x">>) \o <<160>>,        \* "x, x\xa0"
      Str(<<" ", "y">>) \o <<8195>>
          \o Str(<<",", "x", ",">>) }                \* " y\u2003,x,"

\* the text a parameter's "Values" field shows before it is edited
DisplayedValues(i) == JoinCommaSpace(parameters[i].values)

(***************************************************************************)
(* The state after construction.                                           *)
(***************************************************************************)
\* nothing has run yet
Idle ==
    /\ pc = "idle"
    /\ calls = <<>>
    /\ status = "none"
    /\ all_pairs = {}
    /\ uncovered = {}
    /\ suite = <<>>
    /\ analysis = NoAnalysis
    /\ message = NoMessage
    /\ output = NoOutput

Init ==
    /\ parameters = DefaultParameters
    /\ Idle

(***************************************************************************)
(* The edit buttons.                                                       *)
(***************************************************************************)
\* "Add Parameter" pressed with the two text fields holding new_param and
\* new_values
AddParameter(new_param, new_values) ==
    /\ pc = "idle"
    /\ LET name_check   == validate_parameter_name(new_param)
           values_check == validate_parameter_values(new_values)
       IN  IF ~name_check.ok
           THEN /\ message' = Error(name_check.error, <<>>)
                /\ parameters' = parameters
           ELSE IF ~values_check.ok
           THEN /\ message' = Error(values_check.error, <<>>)
                /\ parameters' = parameters
           ELSE /\ parameters' =
                       DictSet(parameters, Strip(new_param), values_check.values)
                /\ message' = Success("Added parameter: ", new_param)
    /\ FreshRun

\* "Update" pressed on parameter param with its field holding values
UpdateParameter(param, values) ==
    /\ pc = "idle"
    /\ param \in Keys(parameters)
    /\ LET values_check == validate_parameter_values(values)
       IN  IF ~values_check.ok
           THEN /\ message' = Error(values_check.error, <<>>)
                /\ parameters' = parameters
           ELSE /\ parameters' = DictSet(parameters, param, values_check.values)
                /\ message' = Success("Updated ", param)
    /\ FreshRun

\* Variant of DeleteParameter that refuses only below 2 parameters.
DeleteParameterBelowTwo(param) ==
    /\ pc = "idle"
    /\ param \in Keys(parameters)
    /\ IF Len(parameters) < 2
       THEN /\ message' =
                   Error("Cannot delete: minimum 2 parameters required", <<>>)
            /\ parameters' = parameters
       ELSE /\ parameters' = DictDel(parameters, param)
            /\ message' = NoMessage
    /\ FreshRun

\* "Delete" pressed on parameter param.  An accepted Delete ends with
\* st.rerun(): the run that called st.success(f"Deleted {param}") is
\* halted and the script runs again with no button pressed, which reports
\* nothing.
DeleteParameter(param) ==
    /\ pc = "idle"
    /\ param \in Keys(parameters)
    /\ IF Len(parameters) <= 2
       THEN /\ message' =
                   Error("Cannot delete: minimum 2 parameters required", <<>>)
            /\ parameters' = parameters
       ELSE /\ parameters' = DictDel(parameters, param)
            /\ message' = NoMessage
    /\ FreshRun

AddPressed ==
    \E new_param \in NameInputs : \E new_values \in ValueInputs :
        AddParameter(new_param, new_values)

UpdatePressed ==
    \E i \in 1..Len(parameters) :
        \E values \in ValueInputs \cup {DisplayedValues(i)} :
            UpdateParameter(parameters[i].name, values)

DeletePressed ==
    \E i \in 1..Len(parameters) : DeleteParameter(parameters[i].name)

(***************************************************************************)
(* "Generate Test Cases".                                                  *)
(***************************************************************************)
\* the names of the parameters with fewer than 2 values
InvalidParams(params) ==
    KeyList(SelectSeq(params, LAMBDA item : Len(item.values) < 2))

\* Variant of Generate without the check of the number of parameters.
GenerateWithoutCountCheck ==
    /\ pc = "idle"
    /\ parameters' = parameters
    /\ analysis' = NoAnalysis
    /\ output' = NoOutput
    /\ suite' = <<>>
    /\ IF InvalidParams(parameters) # <<>>
       THEN /\ message' =
                   Error("The following parameters need at least 2 values: ",
                         JoinCommaSpace(InvalidParams(parameters)))
            /\ calls' = <<>>
            /\ status' = "none"
            /\ pc' = "idle"
            /\ all_pairs' = {}
            /\ uncovered' = {}
       ELSE /\ calls' = <<"find_minimum_test_suite">>
            /\ IF PreconditionViolated(parameters)
               THEN /\ status' = "PreconditionError"
                    /\ message' = Exception("PreconditionError")
                    /\ pc' = "idle"
                    /\ all_pairs' = {}
                    /\ uncovered' = {}
               ELSE /\ status' = "running"
                    /\ message' = NoMessage
                    /\ pc' = "building"
                    /\ all_pairs' = EnumeratePairs(parameters)
                    /\ uncovered' = EnumeratePairs(parameters)

\* The button is pressed: main validates the parameter set and calls
\* algo.find_minimum_test_suite, which re-validates its preconditions,
\* enumerates the required pairs and enters the greedy loop.
Generate ==
    /\ pc = "idle"
    /\ parameters' = parameters
    /\ analysis' = NoAnalysis
    /\ output' = NoOutput
    /\ suite' = <<>>
    /\ IF InvalidParams(parameters) # <<>>
       THEN /\ message' =
                   Error("The following parameters need at least 2 values: ",
                         JoinCommaSpace(InvalidParams(parameters)))
            /\ calls' = <<>>
            /\ status' = "none"
            /\ pc' = "idle"
            /\ all_pairs' = {}
            /\ uncovered' = {}
       ELSE IF Len(parameters) < 2
       THEN /\ message' = Error("Please add at least 2 parameters", <<>>)
            /\ calls' = <<>>
            /\ status' = "none"
            /\ pc' = "idle"
            /\ all_pairs' = {}
            /\ uncovered' = {}
       ELSE /\ calls' = <<"find_minimum_test_suite">>
            /\ IF PreconditionViolated(parameters)
               THEN /\ status' = "PreconditionError"
                    /\ message' = Exception("PreconditionError")
                    /\ pc' = "idle"
                    /\ all_pairs' = {}
                    /\ uncovered' = {}
               ELSE /\ status' = "running"
                    /\ message' = NoMessage
                    /\ pc' = "building"
                    /\ all_pairs' = EnumeratePairs(parameters)
                    /\ uncovered' = EnumeratePairs(parameters)

\* One iteration of the greedy loop (spec.md 4.2, steps 1 to 3): a
\* candidate is built, appended, and every pair it covers is marked.
BuildStep ==
    /\ pc = "building"
    /\ uncovered # {}
    /\ Len(suite) < Cardinality(all_pairs)
    /\ LET test == BuildCandidate(parameters, uncovered, <<>>)
       IN  /\ suite' = Append(suite, test)
           /\ uncovered' = uncovered \ TestPairs(parameters, test)
    /\ UNCHANGED <<parameters, pc, calls, status, all_pairs, analysis,
                   message, output>>

\* The loop is left (spec.md 4.2, step 4) when every pair is covered, or
\* when the iteration bound, the number of required pairs, is used up.
LoopEnded == uncovered = {} \/ Len(suite) >= Cardinality(all_pairs)

\* Leaving the loop with pairs uncovered is the fatal
\* InternalConsistencyError (spec.md 7).
LoopStatus == IF uncovered = {} THEN "ok" ELSE "InternalConsistencyError"

\* The core's call ends.  A returned suite goes to algo.count_unique_pairs
\* and is rendered, an empty one is reported as "No optimal test suite
\* found."; a failure of the core ends the run with nothing rendered.
BuildEnd ==
    /\ pc = "building"
    /\ LoopEnded
    /\ pc' = "idle"
    /\ status' = LoopStatus
    /\ IF LoopStatus = "ok"
       THEN IF suite # <<>>
            THEN LET result ==
                         count_unique_pairs(suite, all_pairs, parameters)
                 IN  /\ calls' = Append(calls, "count_unique_pairs")
                     /\ analysis' = result
                     /\ message' =
                            Success("Test suite generated successfully!", <<>>)
                     /\ output' = Render(parameters, suite, all_pairs,
                                         result.new_unique_counts)
            ELSE /\ message' = Error("No optimal test suite found.", <<>>)
                 /\ UNCHANGED <<calls, analysis, output>>
       ELSE /\ message' = Exception(LoopStatus)
            /\ UNCHANGED <<calls, analysis, output>>
    /\ UNCHANGED <<parameters, all_pairs, uncovered, suite>>

\* The script runs with no button pressed, as it does after every edit of
\* a widget: main reports nothing, calls nothing and renders no table.
RunWithoutButton ==
    /\ pc = "idle"
    /\ parameters' = parameters
    /\ message' = NoMessage
    /\ FreshRun

Next ==
    \/ RunWithoutButton
    \/ AddPressed
    \/ UpdatePressed
    \/ DeletePressed
    \/ Generate
    \/ BuildStep
    \/ BuildEnd

Spec == Init /\ [][Next]_vars


(***************************************************************************)
(* The Generate handler applied to drawn parameter sets: up to MaxParams   *)
(* parameters P1, P2, ... in declaration order, each with the first n      *)
(* (0 <= n <= MaxDomain) of the values v1, v2, ...; the value labels are   *)
(* shared between the parameters.                                          *)
(***************************************************************************)
Digits == <<"1", "2", "3", "4", "5", "6", "7", "8", "9">>

ParamName(i) == Str(<<"P", Digits[i]>>)

ValueLabel(v) == Str(<<"v", Digits[v]>>)

DrawnParameters ==
    UNION { { [i \in 1..k |->
                 [name   |-> ParamName(i),
                  values |-> [v \in 1..sizes[i] |-> ValueLabel(v)]]] :
              sizes \in [1..k -> 0..MaxDomain] } :
            k \in 0..MaxParams }

InitCore ==
    /\ parameters \in DrawnParameters
    /\ Idle

NextCore ==
    \/ Generate
    \/ BuildStep
    \/ BuildEnd

SpecCore == InitCore /\ [][NextCore]_vars

(***************************************************************************)
(* The analyzer applied to a drawn suite: any sequence of at most MaxSuite  *)
(* test cases over one of the two example parameter sets of spec.md 8.     *)
(***************************************************************************)
TwoByTwoParameters ==
<<
    [name   |-> Str(<<"A">>),
     values |-> <<Str(<<"a","1">>), Str(<<"a","2">>)>>],
    [name   |-> Str(<<"B">>),
     values |-> <<Str(<<"b","1">>), Str(<<"b","2">>)>>]
>>

ClassicalParameters ==
<<
    [name   |-> Str(<<"B","r","o","w","s","e","r">>),
     values |-> <<Str(<<"C","h","r","o","m","e">>),
                 Str(<<"F","i","r","e","f","o","x">>)>>],
    [name   |-> Str(<<"O","S">>),
     values |-> <<Str(<<"W","i","n","d","o","w","s">>), Str(<<"M","a","c">>)>>],
    [name   |-> Str(<<"L","a","n","g","u","a","g","e">>),
     values |-> <<Str(<<"E","N">>), Str(<<"F","R">>)>>]
>>

\* every total assignment: one value per parameter, from its own domain
AllTests(params) ==
    { test \in [1..Len(params) ->
                    UNION { ToSet(params[i].values) : i \in 1..Len(params) }] :
        \A i \in 1..Len(params) : test[i] \in ToSet(params[i].values) }

DrawnSuites(params) ==
    UNION { [1..n -> AllTests(params)] : n \in 0..MaxSuite }

\* AnalyzeCoverage(testSuite, requiredPairs, parameters) is called on the
\* drawn suite
AnalyzeSuite ==
    /\ pc = "idle"
    /\ analysis' = count_unique_pairs(suite, all_pairs, parameters)
    /\ calls' = <<"count_unique_pairs">>
    /\ UNCHANGED <<parameters, pc, status, all_pairs, uncovered, suite,
                   message, output>>

InitAnalyze ==
    /\ parameters \in {TwoByTwoParameters, ClassicalParameters}
    /\ suite \in DrawnSuites(parameters)
    /\ all_pairs = EnumeratePairs(parameters)
    /\ pc = "idle"
    /\ calls = <<>>
    /\ status = "none"
    /\ uncovered = {}
    /\ analysis = NoAnalysis
    /\ message = NoMessage
    /\ output = NoOutput

NextAnalyze == AnalyzeSuite

SpecAnalyze == InitAnalyze /\ [][NextAnalyze]_vars


(***************************************************************************)
(* Properties.                                                             *)
(***************************************************************************)
RECURSIVE SumSeq(_)
SumSeq(seq) == IF seq = <<>> THEN 0 ELSE Head(seq) + SumSeq(Tail(seq))

\* at least 2 parameters; names non-empty, trimmed, pairwise distinct; per
\* parameter at least 2 values, non-empty after trimming, pairwise distinct
ValidParameterSet(params) ==
    /\ Len(params) >= 2
    /\ \A i \in 1..Len(params) :
           /\ params[i].name # <<>>
           /\ Strip(params[i].name) = params[i].name
           /\ Len(params[i].values) >= 2
           /\ \A v \in 1..Len(params[i].values) :
                  Strip(params[i].values[v]) # <<>>
           /\ \A v, w \in 1..Len(params[i].values) :
                  v # w => params[i].values[v] # params[i].values[w]
    /\ \A i, j \in 1..Len(params) :
           i # j => params[i].name # params[j].name

\* the core has been called by this run
CoreInvoked == \E k \in 1..Len(calls) : calls[k] = "find_minimum_test_suite"

\* the core's call of this run has ended
GenerationEnded == CoreInvoked /\ pc = "idle"

\* C2: with fewer than 2 parameters, or a parameter with fewer than 2
\* values, the Generate handler only reports an error: neither the core nor
\* the analyzer is called and no suite, partial or not, is built or shown.
C2_InvalidSetNeverReachesCore ==
    (Len(parameters) < 2
        \/ \E i \in 1..Len(parameters) : Len(parameters[i].values) < 2) =>
        /\ calls = <<>>
        /\ pc = "idle"
        /\ status = "none"
        /\ suite = <<>>
        /\ ~output.shown
        /\ message.level \in {"none", "error"}

C2_Witness ==
    /\ Len(parameters) = 1
    /\ Len(parameters[1].values) = 2
    /\ message = Error("Please add at least 2 parameters", <<>>)

\* C3: after the analyzer has run on a suite, the new-unique counts add up
\* to the number of covered pairs, and every test case's count is the
\* number of its pairs that no earlier test case of the suite covers.
C3_NewUniqueCountsSumToCovered ==
    (calls = <<"count_unique_pairs">>) =>
        /\ Len(analysis.new_unique_counts) = Len(suite)
        /\ SumSeq(analysis.new_unique_counts)
               = Cardinality(analysis.covered_pairs)
        /\ analysis.covered_pairs =
               UNION { TestPairs(parameters, suite[k]) : k \in 1..Len(suite) }
        /\ \A k \in 1..Len(suite) :
               analysis.new_unique_counts[k] =
                   Cardinality({ p \in TestPairs(parameters, suite[k]) :
                       \A j \in 1..(k - 1) :
                           p \notin TestPairs(parameters, suite[j]) })

C3_Witness ==
    /\ calls = <<"count_unique_pairs">>
    /\ Len(suite) = 3
    /\ analysis.new_unique_counts[1] = 3
    /\ analysis.new_unique_counts[2] = 2
    /\ analysis.new_unique_counts[3] = 0

\* C4: the parameter set is always valid, in particular whenever the core
\* is invoked: at least 2 parameters, names non-empty, trimmed and distinct,
\* at least 2 values each, non-empty after trimming and distinct.
C4_ParametersAlwaysValid == ValidParameterSet(parameters)

C4_Witness ==
    /\ CoreInvoked
    /\ Len(parameters) = 2
    /\ \E i \in 1..Len(parameters) : parameters[i].name = Str(<<"O", "S">>)

\* the sum over i < j of |domain(Pi)| * |domain(Pj)|
PairCount(params) ==
    LET RECURSIVE Total(_, _)
        Total(i, j) ==
            IF i > Len(params) THEN 0
            ELSE IF j > Len(params) THEN Total(i + 1, i + 2)
            ELSE Len(params[i].values) * Len(params[j].values)
                     + Total(i, j + 1)
    IN  Total(1, 2)

\* C5: for a valid parameter set the enumerated pair universe has exactly
\* the sum over i < j of |domain(Pi)| * |domain(Pj)| members, each one a
\* pair of assignments of two different parameters.
C5_PairUniverseSize ==
    (ValidParameterSet(parameters) /\ CoreInvoked) =>
        /\ Cardinality(all_pairs) = PairCount(parameters)
        /\ \A p \in all_pairs :
               /\ Cardinality(p) = 2
               /\ \A a, b \in p : a # b => a[1] # b[1]

C5_Witness ==
    /\ CoreInvoked
    /\ Len(parameters) = 3
    /\ Len(parameters[1].values) = 2
    /\ Len(parameters[2].values) = 3
    /\ Cardinality(all_pairs) = 2 * 3 + 2 * 3 + 3 * 3

\* C6: with exactly 2 parameters of m and n values the generated suite has
\* m * n test cases, one per combination of values, each contributing
\* exactly 1 new pair.
C6_TwoParametersGiveFullProduct ==
    (ValidParameterSet(parameters) /\ Len(parameters) = 2
         /\ GenerationEnded) =>
        /\ status = "ok"
        /\ Len(suite) = Len(parameters[1].values) * Len(parameters[2].values)
        /\ ToSet(suite) = AllTests(parameters)
        /\ \A k \in 1..Len(suite) :
               count_unique_pairs(suite, all_pairs,
                                  parameters).new_unique_counts[k] = 1

\* C7: every iteration of the greedy loop strictly reduces the number of
\* uncovered pairs, and the loop never ends in InternalConsistencyError.
C7_EveryIterationCoversNewPair ==
    [][/\ (pc = "building" /\ suite' # suite) =>
              Cardinality(uncovered') < Cardinality(uncovered)
       /\ status' # "InternalConsistencyError"]_vars

\* the step reports an error and leaves the parameter set as it is
RejectedOutcome == parameters' = parameters /\ message'.level = "error"

\* C9: a rejected Add, Update or Delete reports an error and leaves the
\* parameter set as it is; a Delete with more than 2 parameters removes
\* exactly the chosen parameter and keeps the others, in order.
C9_RejectedEditsChangeNothing ==
    [][/\ \/ RejectedOutcome
          \/ \A new_param \in NameInputs : \A new_values \in ValueInputs :
                 ~(/\ \/ Strip(new_param) = <<>>
                      \/ Strip(new_param) \in Keys(parameters)
                      \/ ~validate_parameter_values(new_values).ok
                   /\ AddParameter(new_param, new_values))
       /\ \/ RejectedOutcome
          \/ \A i \in 1..Len(parameters) :
                 \A values \in ValueInputs \cup {DisplayedValues(i)} :
                     ~(/\ ~validate_parameter_values(values).ok
                       /\ UpdateParameter(parameters[i].name, values))
       /\ \A i \in 1..Len(parameters) :
              DeleteParameter(parameters[i].name) =>
                  IF Len(parameters) <= 2
                  THEN RejectedOutcome
                  ELSE parameters' =
                           [j \in 1..(Len(parameters) - 1) |->
                               IF j < i THEN parameters[j]
                               ELSE parameters[j + 1]]]_vars

C9_Witness ==
    /\ Len(parameters) = 2
    /\ message = Error("Cannot delete: minimum 2 parameters required", <<>>)

\* C10: the text shown in a parameter's "Values" field, ", ".join(values),
\* validates to exactly the stored value list, so an Update of the unedited
\* text stores the same values.
C10_ValuesRoundTrip ==
    \A i \in 1..Len(parameters) :
        validate_parameter_values(DisplayedValues(i)) =
            [ok |-> TRUE, values |-> parameters[i].values, error |-> ""]

C10_Witness ==
    /\ message.level = "success"
    /\ message.text = "Updated "
    /\ \E i \in 1..Len(parameters) :
           /\ parameters[i].values = <<Str(<<"y">>), Str(<<"x">>)>>
           /\ \E j \in 1..Len(parameters) :
                  /\ j # i
                  /\ \E v \in 1..Len(parameters[j].values) :
                         \E c \in 1..Len(parameters[j].values[v]) :
                             parameters[j].values[v][c] = Ord(" ")


====
